---- MODULE Spec2Model ----
(***************************************************************************)
(* A model of sddl.py: the SDDL descriptor parser (class SDDL), the access *)
(* control entry parser (class ACE), the account lookup TranslateSid and   *)
(* the module-level code tables they share.                                *)
(*                                                                         *)
(* Input strings are sequences of one-character strings, so that the       *)
(* regular expressions and str.split of the source are modelled by what    *)
(* they match.  Dictionary keys and the attributes of the parsed objects   *)
(* are TLA+ strings (Str converts).  Python's None is the value None.      *)
(***************************************************************************)
EXTENDS Integers, Sequences, FiniteSets, TLC

VARIABLES
    ACCESS,    \* the module-level dictionary ACCESS (shared by every call)
    wmi,       \* what the WMI service answers for a SID string
    last,      \* the latest call: its kind, arguments and outcome
    tracked,   \* history: the Parse arguments whose first outcome is kept
    first      \* history: the outcome of the first Parse call of tracked

vars == <<ACCESS, wmi, last, tracked, first>>

None == "<None>"

\* Python truthiness of a str-or-None value.
Truthy(v) == v # None /\ v # ""

Max(S) == CHOOSE m \in S : \A n \in S : n <= m
Min(S) == CHOOSE m \in S : \A n \in S : m <= n

RECURSIVE Str(_)
\* The str made of a sequence of characters.
Str(cs) == IF cs = <<>> THEN "" ELSE Head(cs) \o Str(Tail(cs))

(***************************************************************************)
(* The code tables.                                                        *)
(***************************************************************************)

SDDL_TYPE == [O |-> "Owner", G |-> "Group", D |-> "DACL", S |-> "SACL"]

\* The dictionary literal ACCESS; it names 'FA' twice and the later value
\* ('FILE_ALL_ACCESS') is the one the dictionary holds.  'CR' is no key.
ACCESS_0 ==
    [A  |-> "ACCESS_ALLOWED",        D  |-> "ACCESS_DENIED",
     OA |-> "ACCESS_ALLOWED_OBJECT", OD |-> "ACCESS_DENIED_OBJECT",
     AU |-> "SYSTEM_AUDIT",          AL |-> "SYSTEM_ALARM",
     OU |-> "SYSTEM_AUDIT_OBJECT",   OL |-> "SYSTEM_ALARM_OBJECT",
     CI |-> "CONTAINER_INHERIT",     OI |-> "OBJECT_INHERIT",
     NP |-> "NO_PROPAGATE_INHERIT",  IO |-> "INHERIT_ONLY",
     ID |-> "INHERITED",             SA |-> "SUCCESSFUL_ACCESS",
     GA |-> "GENERIC_ALL",           GR |-> "GENERIC_READ",
     GW |-> "GENERIC_WRITE",         GX |-> "GENERIC_EXECUTE",
     RC |-> "READ_CONTROL",          SD |-> "DELETE",
     WD |-> "WRITE_DAC",             WO |-> "WRITE_OWNER",
     RP |-> "DS_READ_PROP",          WP |-> "DS_WRITE_PROP",
     CC |-> "DS_CREATE_CHILD",       DC |-> "DS_DELETE_CHILD",
     LC |-> "DS_LIST",               SW |-> "DS_SELF",
     LO |-> "DS_LIST_OBJECT",        DT |-> "DS_DELETE_TREE",
     FA |-> "FILE_ALL_ACCESS",       FR |-> "FILE_GENERIC_READ",
     FW |-> "FILE_GENERIC_WRITE",    FX |-> "FILE_GENERIC_EXECUTE",
     KA |-> "KEY_ALL_ACCESS",        KR |-> "KEY_READ",
     KW |-> "KEY_WRITE",             KE |-> "KEY_EXECUTE"]

TRUSTEE ==
    [AO |-> "Account Operators",
     RU |-> "Pre-Win2k Compatibility Access",
     AN |-> "Anonymous",
     AU |-> "Authenticated Users",
     BA |-> "Administrators",
     BG |-> "Guests",
     BO |-> "Backup Operators",
     BU |-> "Users",
     CA |-> "Certificate Publishers",
     CD |-> "Certificate Services DCOM Access",
     CG |-> "Creator Group",
     CO |-> "Creator Owner",
     DA |-> "Domain Admins",
     DC |-> "Domain Computers",
     DD |-> "Domain Controllers",
     DG |-> "Domain Guests",
     DU |-> "Domain Users",
     EA |-> "Enterprise Admins",
     ED |-> "Enterprise Domain Controllers",
     RO |-> "Enterprise Read-Only Domain Controllers",
     WD |-> "Everyone",
     PA |-> "Group Policy Admins",
     IU |-> "Interactive Users",
     LA |-> "Local Administrator",
     LG |-> "Local Guest",
     LS |-> "Local Service",
     SY |-> "Local System",
     NU |-> "Network",
     LW |-> "Low Integrity",
     ME |-> "Medium Integrity",
     HI |-> "High Integrity",
     SI |-> "System Integrity",
     NO |-> "Network Configuration Operators",
     NS |-> "Network Service",
     PO |-> "Printer Operators",
     PS |-> "Self",
     PU |-> "Power Users",
     RS |-> "RAS Servers",
     RD |-> "Remote Desktop Users",
     RE |-> "Replicator",
     RC |-> "Restricted Code",
     SA |-> "Schema Administrators",
     SO |-> "Server Operators",
     SU |-> "Service"]

\* The thirteen assignments self.ACCESS[code] = name made for a service.
ServiceNames ==
    [CC |-> "Query Configuration",    DC |-> "Change Configuration",
     LC |-> "Query State",            SW |-> "Enumerate Dependencies",
     RP |-> "Start",                  WP |-> "Stop",
     DT |-> "Pause",                  LO |-> "Interrogate",
     CR |-> "User Defined",           SD |-> "Delete",
     RC |-> "Read the Security Descriptor",
     WD |-> "Change Permissions",     WO |-> "Change Owner"]

\* The dictionary d after the thirteen item assignments.
ServiceAssign(d) ==
    [c \in DOMAIN d \cup DOMAIN ServiceNames |->
        IF c \in DOMAIN ServiceNames THEN ServiceNames[c] ELSE d[c]]

(***************************************************************************)
(* str comparison, as list.sort() uses it: by code point.  The names the   *)
(* tables hold, in that order ("_" sorts after the capitals and before the *)
(* small letters, the space before both).                                  *)
(***************************************************************************)
NameOrder ==
 << "ACCESS_ALLOWED", "ACCESS_ALLOWED_OBJECT", "ACCESS_DENIED",
    "ACCESS_DENIED_OBJECT", "CONTAINER_INHERIT", "Change Configuration",
    "Change Owner", "Change Permissions", "DELETE", "DS_CREATE_CHILD",
    "DS_DELETE_CHILD", "DS_DELETE_TREE", "DS_LIST", "DS_LIST_OBJECT",
    "DS_READ_PROP", "DS_SELF", "DS_WRITE_PROP", "Delete",
    "Enumerate Dependencies", "FILE_ALL_ACCESS", "FILE_GENERIC_EXECUTE",
    "FILE_GENERIC_READ", "FILE_GENERIC_WRITE", "GENERIC_ALL",
    "GENERIC_EXECUTE", "GENERIC_READ", "GENERIC_WRITE", "INHERITED",
    "INHERIT_ONLY", "Interrogate", "KEY_ALL_ACCESS", "KEY_EXECUTE",
    "KEY_READ", "KEY_WRITE", "NO_PROPAGATE_INHERIT", "OBJECT_INHERIT",
    "Pause", "Query Configuration", "Query State", "READ_CONTROL",
    "Read the Security Descriptor", "SUCCESSFUL_ACCESS", "SYSTEM_ALARM",
    "SYSTEM_ALARM_OBJECT", "SYSTEM_AUDIT", "SYSTEM_AUDIT_OBJECT", "Start",
    "Stop", "User Defined", "WRITE_DAC", "WRITE_OWNER" >>

Rank(name) == CHOOSE i \in 1..Len(NameOrder) : NameOrder[i] = name

\* a <= b for two names.
StrLeq(a, b) == Rank(a) <= Rank(b)

RECURSIVE Insert(_, _)
\* The sorted list xs with x put after the elements that are <= x.
Insert(xs, x) ==
    IF xs = <<>> THEN <<x>>
    ELSE IF StrLeq(Head(xs), x) THEN <<Head(xs)>> \o Insert(Tail(xs), x)
    ELSE <<x>> \o xs

RECURSIVE Sort(_)
\* list.sort(): ascending and stable.
Sort(xs) ==
    IF xs = <<>> THEN <<>>
    ELSE Insert(Sort(SubSeq(xs, 1, Len(xs) - 1)), xs[Len(xs)])

(***************************************************************************)
(* The regular expressions and str.split.                                  *)
(***************************************************************************)

\* The class [^:()] of re_owner, re_group and re_non_acl negated.
Punct == {":", "(", ")"}

\* \w
WordChars ==
    {"A","B","C","D","E","F","G","H","I","J","K","L","M",
     "N","O","P","Q","R","S","T","U","V","W","X","Y","Z",
     "a","b","c","d","e","f","g","h","i","j","k","l","m",
     "n","o","p","q","r","s","t","u","v","w","x","y","z",
     "0","1","2","3","4","5","6","7","8","9","_"}

NoMatch == [found |-> FALSE, text |-> <<>>]
Match(cs) == [found |-> TRUE, text |-> cs]

\* The lengths n >= 1 of a run s[i..i+n-1] free of ':' '(' ')' that is
\* followed by one character of ahead and a ':'.
RunEnds(s, i, ahead) ==
    {n \in 1..Len(s) :
        /\ i + n + 1 <= Len(s)
        /\ \A k \in i..(i + n - 1) : s[k] \notin Punct
        /\ s[i + n] \in ahead
        /\ s[i + n + 1] = ":"}

\* re.search(re_owner, s), re_owner = '^O:[^:()]+(?=[DGS]:)': at the start
\* of s only; the greedy run backtracks to the longest one the lookahead
\* accepts.
re_owner_search(s) ==
    IF /\ Len(s) >= 2
       /\ s[1] = "O"
       /\ s[2] = ":"
       /\ RunEnds(s, 3, {"D", "G", "S"}) # {}
    THEN Match(SubSeq(s, 1, 2 + Max(RunEnds(s, 3, {"D", "G", "S"}))))
    ELSE NoMatch

\* The positions where 'G:[^:()]+(?=[DOS]:)' matches.
GroupStarts(s) ==
    {i \in 1..Len(s) :
        /\ i + 1 <= Len(s)
        /\ s[i] = "G"
        /\ s[i + 1] = ":"
        /\ RunEnds(s, i + 2, {"D", "O", "S"}) # {}}

\* re.search(re_group, s): the leftmost match.
re_group_search(s) ==
    IF GroupStarts(s) = {} THEN NoMatch
    ELSE LET i == Min(GroupStarts(s))
         IN  Match(SubSeq(s, i, i + 1 + Max(RunEnds(s, i + 2, {"D", "O", "S"}))))

\* The positions where '[DS]:.+$' matches (no input holds a newline).
AclStarts(s) ==
    {i \in 1..Len(s) :
        /\ i + 2 <= Len(s)
        /\ s[i] \in {"D", "S"}
        /\ s[i + 1] = ":"}

\* re.search(re_acl, s): from the leftmost 'D:' or 'S:' to the end.
re_acl_search(s) ==
    IF AclStarts(s) = {} THEN NoMatch
    ELSE Match(SubSeq(s, Min(AclStarts(s)), Len(s)))

\* re.match(re_type, part), re_type = '^[DOGS]'.
re_type_match(part) ==
    IF Len(part) >= 1 /\ part[1] \in {"D", "O", "G", "S"}
    THEN Match(<<part[1]>>)
    ELSE NoMatch

\* The lengths of the non-empty suffixes of part free of ':' '(' ')'.
SuffixRuns(part) ==
    {n \in 1..Len(part) :
        \A k \in (Len(part) - n + 1)..Len(part) : part[k] \notin Punct}

\* re.search(re_non_acl, part), re_non_acl = '[^:()]+$'.
re_non_acl_search(part) ==
    IF SuffixRuns(part) = {} THEN NoMatch
    ELSE Match(SubSeq(part, Len(part) - Max(SuffixRuns(part)) + 1, Len(part)))

\* The positions j > i of the first parenthesis after s[i].
NextParen(s, i) == {j \in (i + 1)..Len(s) :
                       /\ s[j] \in {"(", ")"}
                       /\ \A k \in (i + 1)..(j - 1) : s[k] \notin {"(", ")"}}

RECURSIVE PermsFrom(_, _)
\* The matches of re_perms = '\(([^\(\)]+)\)' in s from position i on.
PermsFrom(s, i) ==
    IF i > Len(s) THEN <<>>
    ELSE IF /\ s[i] = "("
            /\ NextParen(s, i) # {}
            /\ LET j == Min(NextParen(s, i)) IN s[j] = ")" /\ j > i + 1
    THEN LET j == Min(NextParen(s, i))
         IN  <<SubSeq(s, i + 1, j - 1)>> \o PermsFrom(s, j + 1)
    ELSE PermsFrom(s, i + 1)

\* re.findall(re_perms, part): the group of every match, left to right.
re_perms_findall(part) == PermsFrom(part, 1)

RECURSIVE ConstFrom(_, _)
\* The matches of re_const = '(\w\w)' in f from position i on.
ConstFrom(f, i) ==
    IF i + 1 > Len(f) THEN <<>>
    ELSE IF f[i] \in WordChars /\ f[i + 1] \in WordChars
    THEN <<Str(<<f[i], f[i + 1]>>)>> \o ConstFrom(f, i + 2)
    ELSE ConstFrom(f, i + 1)

\* re.findall(re_const, field): the two-character codes of a field.
re_const_findall(f) == ConstFrom(f, 1)

RECURSIVE split(_, _)
\* s.split(sep) for a one-character sep.
split(s, sep) ==
    IF \A k \in 1..Len(s) : s[k] # sep THEN <<s>>
    ELSE LET i == Min({k \in 1..Len(s) : s[k] = sep})
         IN  <<SubSeq(s, 1, i - 1)>> \o split(SubSeq(s, i + 1, Len(s)), sep)

(***************************************************************************)
(* TranslateSid.                                                           *)
(***************************************************************************)

\* What wmi.WMI().Get('Win32_SID.SID="..."') can do: return an account
\* object, return nothing, or fail with the library's exception.
WmiAccount == [kind |-> "account", ReferencedDomainName |-> "CORP",
               AccountName |-> "alice"]
WmiNothing == [kind |-> "nothing", ReferencedDomainName |-> "",
               AccountName |-> ""]
WmiFailure == [kind |-> "error", ReferencedDomainName |-> "",
               AccountName |-> ""]
WmiAnswers == {WmiAccount, WmiNothing, WmiFailure}

\* The SID strings whose answer the environment decides; a string that is
\* no SID of the machine yields nothing.
Sids == {"S-1"}

WmiGet(w, sid_string) ==
    IF sid_string \in DOMAIN w THEN w[sid_string] ELSE WmiNothing

\* TranslateSid(sid_string): the account name, None when the lookup yields
\* nothing; an exception of the lookup is not caught.
TranslateSid(sid_string, w) ==
    LET account == WmiGet(w, sid_string)
    IN  IF account.kind = "error"
        THEN [raised |-> "x_wmi", value |-> None]
        ELSE IF account.kind = "account"
        THEN [raised |-> None,
              value  |-> account.ReferencedDomainName \o "\\"
                            \o account.AccountName]
        ELSE [raised |-> None, value |-> None]

(***************************************************************************)
(* class ACE.                                                              *)
(***************************************************************************)

NoAce == [ace_string |-> None, ace_type |-> None, flags |-> <<>>,
          perms |-> <<>>, object_type |-> None, inherited_type |-> None,
          trustee |-> None]

\* One pass of 'if LOCAL_ACCESS[code]: append(LOCAL_ACCESS[code]) else:
\* append(code)' over codes; the subscription raises KeyError for a code
\* that is no key.
Translate(table, codes) ==
    IF \E i \in 1..Len(codes) : codes[i] \notin DOMAIN table
    THEN [raised |-> "KeyError", names |-> <<>>]
    ELSE [raised |-> None,
          names  |-> [i \in 1..Len(codes) |->
                         IF Truthy(table[codes[i]]) THEN table[codes[i]]
                         ELSE codes[i]]]

\* The trustee of an entry: TRUSTEE[code] (KeyError for a code that is no
\* key), then TranslateSid, then the literal.
AceTrustee(code, w) ==
    IF code \notin DOMAIN TRUSTEE
    THEN [raised |-> "KeyError", value |-> None, calls |-> <<>>]
    ELSE LET named == IF Truthy(TRUSTEE[code]) THEN TRUSTEE[code] ELSE None
         IN  IF Truthy(named)
             THEN [raised |-> None, value |-> named, calls |-> <<>>]
             ELSE LET t == TranslateSid(code, w)
                  IN  [raised |-> t.raised,
                       value  |-> IF Truthy(t.value) THEN t.value
                                  ELSE "Unknown or invalid SID.",
                       calls  |-> <<code>>]

\* ACE(ace_string, access_constants): the exception raised (None when
\* none), the object built and the TranslateSid calls made.
ACE(ace_string, access_constants, w) ==
    LET fields  == split(ace_string, ";")
        Failed(e, calls) == [raised |-> e, ace |-> NoAce, calls |-> calls]
    IN  IF Len(fields) # 6 THEN Failed("InvalidAceStringError", <<>>)
        ELSE
        LET type  == Translate(access_constants, <<Str(fields[1])>>)
            flags == Translate(access_constants, re_const_findall(fields[2]))
            perms == Translate(access_constants, re_const_findall(fields[3]))
            who   == AceTrustee(Str(fields[6]), w)
        IN  IF type.raised # None THEN Failed(type.raised, <<>>)
            ELSE IF flags.raised # None THEN Failed(flags.raised, <<>>)
            ELSE IF perms.raised # None THEN Failed(perms.raised, <<>>)
            ELSE IF who.raised # None THEN Failed(who.raised, who.calls)
            ELSE [raised |-> None,
                  ace    |-> [ace_string     |-> Str(ace_string),
                              ace_type       |-> type.names[1],
                              flags          |-> flags.names,
                              perms          |-> Sort(perms.names),
                              object_type    |-> Str(fields[4]),
                              inherited_type |-> Str(fields[5]),
                              trustee        |-> who.value],
                  calls  |-> who.calls]

(***************************************************************************)
(* class SDDL.                                                             *)
(***************************************************************************)

\* The attributes of a new SDDL object before the loop over the parts.
NewSddl(sddl_string, target) ==
    [sddl_string |-> Str(sddl_string), target |-> target,
     sddl_type |-> None, acl |-> <<>>,
     group_sid |-> None, group_account |-> None,
     owner_sid |-> None, owner_account |-> None]

NoSddl == [sddl_string |-> None, target |-> None,
           sddl_type |-> None, acl |-> <<>>,
           group_sid |-> None, group_account |-> None,
           owner_sid |-> None, owner_account |-> None]

\* The account of the group: the table's name for a key of TRUSTEE, else
\* what TranslateSid returns.
GroupResolve(sid, w) ==
    IF sid \in DOMAIN TRUSTEE
    THEN [raised |-> None, value |-> TRUSTEE[sid], calls |-> <<>>]
    ELSE LET t == TranslateSid(sid, w)
         IN  [raised |-> t.raised, value |-> t.value, calls |-> <<sid>>]

\* The owner's account resolved by TranslateSid whether or not the code is
\* a key of TRUSTEE.
OwnerResolveAlways(sid, w) ==
    LET t == TranslateSid(sid, w)
    IN  [raised |-> t.raised,
         value  |-> IF sid \in DOMAIN TRUSTEE THEN TRUSTEE[sid] ELSE t.value,
         calls  |-> <<sid>>]

\* The account of the owner: the table's name for a key of TRUSTEE, else
\* what TranslateSid returns.
OwnerResolve(sid, w) ==
    IF sid \in DOMAIN TRUSTEE
    THEN [raised |-> None, value |-> TRUSTEE[sid], calls |-> <<>>]
    ELSE LET t == TranslateSid(sid, w)
         IN  [raised |-> t.raised, value |-> t.value, calls |-> <<sid>>]

\* The outcome of an entry followed by the outcome of the entries after it.
AcesJoin(a, rest) ==
    [raised |-> rest.raised, acl |-> rest.acl, calls |-> a.calls \o rest.calls]

RECURSIVE AppendAces(_, _, _, _)
\* What follows the construction a of the first of entries: its exception
\* ends the loop, else the entry is appended and the loop goes on.
AcesRest(a, acl, entries, access, w) ==
    IF a.raised # None
    THEN [raised |-> a.raised, acl |-> acl, calls |-> a.calls]
    ELSE AcesJoin(a, AppendAces(Append(acl, a.ace), Tail(entries), access, w))

\* 'for perms in re.findall(re_perms, part): self.acl.append(ACE(...))':
\* the list acl grown by the entries, up to the first that raises.
AppendAces(acl, entries, access, w) ==
    IF entries = <<>> THEN [raised |-> None, acl |-> acl, calls |-> <<>>]
    ELSE AcesRest(ACE(Head(entries), access, w), acl, entries, access, w)

\* The branch of a 'D' or 'S' part: the kind of the ACL and its entries a.
SetAcl(self, sddl_prefix, a) ==
    [raised |-> a.raised,
     self   |-> [self EXCEPT !.sddl_type = SDDL_TYPE[sddl_prefix],
                             !.acl = a.acl],
     calls  |-> a.calls]

\* The branch of a 'G' part: the group's SID and its account r, 'Unknown'
\* when there is none.
SetGroup(self, sid, r) ==
    [raised |-> r.raised,
     self   |-> [self EXCEPT !.group_sid = sid,
                             !.group_account = IF Truthy(r.value) THEN r.value
                                               ELSE "Unknown"],
     calls  |-> r.calls]

\* The branch of an 'O' part: the owner's SID and its account r, 'Unknown'
\* when there is none.
SetOwner(self, sid, r) ==
    [raised |-> r.raised,
     self   |-> [self EXCEPT !.owner_sid = sid,
                             !.owner_account = IF Truthy(r.value) THEN r.value
                                               ELSE "Unknown"],
     calls  |-> r.calls]

\* The SID of an owner or group part.
PartSid(part) == Str(re_non_acl_search(part).text)

\* The body of the loop for one part that matched.
SddlPart(self, part, access, w) ==
    LET sddl_prefix == re_type_match(part).text[1]
    IN  IF sddl_prefix \in {"D", "S"}
        THEN IF sddl_prefix \notin DOMAIN SDDL_TYPE
             THEN [raised |-> "InvalidSddlTypeError", self |-> self,
                   calls |-> <<>>]
             ELSE SetAcl(self, sddl_prefix,
                         AppendAces(self.acl, re_perms_findall(part),
                                    access, w))
        ELSE IF sddl_prefix = "G"
        THEN SetGroup(self, PartSid(part), GroupResolve(PartSid(part), w))
        ELSE IF sddl_prefix = "O"
        THEN SetOwner(self, PartSid(part), OwnerResolve(PartSid(part), w))
        ELSE [raised |-> "InvalidSddlStringError", self |-> self,
              calls |-> <<>>]

\* The outcome of a part followed by the outcome of the parts after it.
SddlJoin(p, rest) ==
    [raised |-> rest.raised, self |-> rest.self, calls |-> p.calls \o rest.calls]

RECURSIVE SddlLoop(_, _, _, _)
\* What follows the outcome p of a part: its exception ends the loop, else
\* the loop goes on with the matches that remain.
SddlRest(p, matches, access, w) ==
    IF p.raised # None THEN p
    ELSE SddlJoin(p, SddlLoop(p.self, matches, access, w))

\* 'for match in (sddl_owner_part, sddl_group_part, sddl_acl_part)': a
\* search that found nothing is skipped, an exception ends the loop.
SddlLoop(self, matches, access, w) ==
    IF matches = <<>> THEN [raised |-> None, self |-> self, calls |-> <<>>]
    ELSE IF ~Head(matches).found
    THEN SddlLoop(self, Tail(matches), access, w)
    ELSE SddlRest(SddlPart(self, Head(matches).text, access, w),
                  Tail(matches), access, w)

\* What the constructor leaves: the dictionary self.ACCESS, the exception
\* raised (None when none), the object built (none when an exception
\* leaves the constructor) and the TranslateSid calls made.
SddlResult(self_ACCESS, run) ==
    [ACCESS |-> self_ACCESS,
     raised |-> run.raised,
     sddl   |-> IF run.raised = None THEN run.self ELSE NoSddl,
     calls  |-> run.calls]

\* The dictionary self.ACCESS of a call: the module's ACCESS itself (not a
\* copy), after the service assignments when target is 'service'.
SelfAccess(target, access) ==
    IF target = "service" THEN ServiceAssign(access) ELSE access

\* SDDL(sddl_string, target) run on the module's dictionary access.
SDDL(sddl_string, target, access, w) ==
    LET sddl_owner_part == re_owner_search(sddl_string)
        sddl_group_part == re_group_search(sddl_string)
        sddl_acl_part   == re_acl_search(sddl_string)
    IN  SddlResult(SelfAccess(target, access),
                   SddlLoop(NewSddl(sddl_string, target),
                            <<sddl_owner_part, sddl_group_part, sddl_acl_part>>,
                            SelfAccess(target, access), w))

(***************************************************************************)
(* The inputs of the calls.                                                *)
(***************************************************************************)

\* 'A;;RP;;;BU': one permission the service table renames.
Ace_RP ==
    <<"A", ";", ";", "R", "P", ";", ";", ";", "B", "U">>

\* 'A;CI;WPCC;;;AU': a flag and two permissions out of order.
Ace_SORT ==
    <<"A", ";", "C", "I", ";", "W", "P", "C", "C", ";", ";", ";", "A", "U">>

\* 'A;;CR;;;AU': 'CR', a key of the service names only.
Ace_CR ==
    <<"A", ";", ";", "C", "R", ";", ";", ";", "A", "U">>

\* 'ZZ;;RC;;;BU': an entry type no table names.
Ace_TYPE ==
    <<"Z", "Z", ";", ";", "R", "C", ";", ";", ";", "B", "U">>

\* 'A;ZZ;;;;BU': a flag no table names.
Ace_FLAG ==
    <<"A", ";", "Z", "Z", ";", ";", ";", ";", "B", "U">>

\* 'A;;RC;;;S-1': a trustee that is a SID.
Ace_SID ==
    <<"A", ";", ";", "R", "C", ";", ";", ";", "S", "-", "1">>

\* 'A;;;;;BU': no flag and no permission.
Ace_NONE ==
    <<"A", ";", ";", ";", ";", ";", "B", "U">>

\* 'A;;RC;;;BU;EX': seven fields.
Ace_7 ==
    <<"A", ";", ";", "R", "C", ";", ";", ";", "B", "U", ";", "E", "X">>

\* 'A;;RC': three fields.
Ace_3 ==
    <<"A", ";", ";", "R", "C">>

AceStrings ==
    {Ace_RP, Ace_SORT, Ace_CR, Ace_TYPE, Ace_FLAG,
     Ace_SID, Ace_NONE, Ace_7, Ace_3}

\* 'O:BA'
Owner_BA == <<"O", ":", "B", "A">>

\* 'O:S-1'
Owner_SID == <<"O", ":", "S", "-", "1">>

\* 'G:SY'
Group_SY == <<"G", ":", "S", "Y">>

\* 'G:S-1'
Group_SID == <<"G", ":", "S", "-", "1">>

\* '(' entry ')'
Par(e) == <<"(">> \o e \o <<")">>

\* What follows 'D:': nothing, '()', one entry, two entries.
AclBodies ==
    {<<>>, <<"(", ")">>}
        \cup {Par(e) : e \in AceStrings}
        \cup {Par(Ace_TYPE) \o Par(Ace_7), Par(Ace_RP) \o Par(Ace_SORT)}

\* The ACL section of a descriptor string: a DACL, a SACL, none, or
\* entries that no 'D:' or 'S:' introduces.
AclParts ==
    {<<"D", ":">> \o b : b \in AclBodies}
        \cup {<<"S", ":">> \o Par(Ace_RP)}
        \cup {<<>>, Par(Ace_RP), Par(Ace_7)}

\* The owner and group sections that stand before the ACL section.
Heads ==
    {<<>>, Owner_BA, Owner_SID, Group_SY,
     Owner_BA \o Group_SY, Owner_BA \o Group_SID}

\* Descriptor strings whose sections stand in another order.
Reordered ==
    {<<"D", ":">> \o Par(Ace_RP) \o Owner_BA,
     <<"D", ":">> \o Par(Ace_RP) \o Group_SY,
     Owner_BA \o <<"D", ":">> \o Par(Ace_RP) \o Group_SY,
     Group_SY \o Owner_BA \o <<"D", ":">> \o Par(Ace_RP),
     Group_SY \o Owner_BA}

\* The descriptor strings of the calls: every ACL section alone and after
\* an owner that is a SID, every head alone and before a DACL, and the
\* reordered ones.
Descriptors ==
    AclParts
        \cup {Owner_SID \o a : a \in AclParts}
        \cup {h \o a : h \in Heads, a \in {<<>>, <<"D", ":">> \o Par(Ace_RP)}}
        \cup Reordered

\* target: None (the default) or 'service'.
Targets == {None, "service"}

\* The calls whose first outcome the history variable may keep.
TrackedCalls ==
    {[sddl_string |-> <<"D", ":">> \o Par(Ace_RP), target |-> None],
     [sddl_string |-> <<"D", ":">> \o Par(Ace_CR), target |-> None]}

(***************************************************************************)
(* The state machine.                                                      *)
(***************************************************************************)

NoOutcome == [raised |-> None, sddl |-> NoSddl, made |-> FALSE]
Outcome(r) == [raised |-> r.raised, sddl |-> r.sddl, made |-> TRUE]

NoCall == [op |-> "none", input |-> <<>>, target |-> None,
           raised |-> None, sddl |-> NoSddl, ace |-> NoAce, calls |-> <<>>]

\* The module is imported: ACCESS is the dictionary literal, the WMI
\* service answers each SID in some way, no call was made.
Init ==
    /\ ACCESS = ACCESS_0
    /\ wmi \in [Sids -> WmiAnswers]
    /\ last = NoCall
    /\ tracked \in TrackedCalls
    /\ first = NoOutcome

\* A caller runs SDDL(sddl_string, target).
Parse(sddl_string, target) ==
    \E r \in {SDDL(sddl_string, target, ACCESS, wmi)} :
        /\ ACCESS' = r.ACCESS
        /\ last' = [op |-> "SDDL", input |-> sddl_string, target |-> target,
                    raised |-> r.raised, sddl |-> r.sddl, ace |-> NoAce,
                    calls |-> r.calls]
        /\ first' = IF /\ ~first.made
                       /\ tracked = [sddl_string |-> sddl_string,
                                     target |-> target]
                    THEN Outcome(r) ELSE first
        /\ UNCHANGED <<wmi, tracked>>

\* A caller runs ACE(ace_string, ACCESS) with the module's dictionary.
ParseEntry(ace_string) ==
    \E r \in {ACE(ace_string, ACCESS, wmi)} :
        /\ last' = [op |-> "ACE", input |-> ace_string, target |-> None,
                    raised |-> r.raised, sddl |-> NoSddl, ace |-> r.ace,
                    calls |-> r.calls]
        /\ UNCHANGED <<ACCESS, wmi, tracked, first>>

Next ==
    \/ \E d \in Descriptors, t \in Targets : Parse(d, t)
    \/ \E e \in AceStrings : ParseEntry(e)

Spec == Init /\ [][Next]_vars

(***************************************************************************)
(* Vocabulary of the properties.                                           *)
(***************************************************************************)

IsParse == last.op = "SDDL"
IsParseEntry == last.op = "ACE"

\* The fields of the latest call's entry string.
LastFields == split(last.input, ";")

\* The outcome of the latest call, as first keeps it.
LastOutcome == [raised |-> last.raised, sddl |-> last.sddl, made |-> TRUE]

\* The WMI service fails for no SID.
WmiNeverFails == \A sid \in DOMAIN wmi : wmi[sid].kind # "error"

\* The name the resolution chain is to give a trustee code: the table's
\* name, else the service's name, else the fallback literal.
ChainName(code, fallback) ==
    IF code \in DOMAIN TRUSTEE THEN TRUSTEE[code]
    ELSE IF WmiGet(wmi, code).kind = "account"
    THEN WmiGet(wmi, code).ReferencedDomainName \o "\\"
            \o WmiGet(wmi, code).AccountName
    ELSE fallback

\* The string d holds the section text somewhere.
HasSection(d, text) ==
    \E i \in 1..Len(d) :
        /\ i + Len(text) - 1 <= Len(d)
        /\ SubSeq(d, i, i + Len(text) - 1) = text

\* The owner and group sections the descriptor strings are made of.
OwnerSections == {[text |-> Owner_BA, code |-> "BA"],
                  [text |-> Owner_SID, code |-> "S-1"]}
GroupSections == {[text |-> Group_SY, code |-> "SY"],
                  [text |-> Group_SID, code |-> "S-1"]}

\* The entry strings of the ACL section the parser finds in d.
EntriesOf(d) ==
    IF re_acl_search(d).found THEN re_perms_findall(re_acl_search(d).text)
    ELSE <<>>

\* The sequence of names is ascending.
Ascending(names) ==
    \A i \in 1..(Len(names) - 1) : StrLeq(names[i], names[i + 1])

(***************************************************************************)
(* The properties.                                                         *)
(***************************************************************************)

\* C1: service-context isolation.  The shared access table is never
\* changed, and a Parse call with no target has the outcome it has on the
\* table as loaded, whatever calls (with target 'service' or not) ran before.
C1_ServiceIsolation ==
    /\ ACCESS = ACCESS_0
    /\ (IsParse /\ last.target = None) =>
          /\ last.raised = SDDL(last.input, None, ACCESS_0, wmi).raised
          /\ last.sddl = SDDL(last.input, None, ACCESS_0, wmi).sddl

\* C2: in a six-field entry string (with a trustee the table names), a code
\* of the type, flags or permissions field that the access table does not
\* contain is no error: ParseEntry completes, and the code stands raw as the
\* entry type, at its position among the flags, or among the permissions.
C2_UnknownCodesPassThrough ==
    (/\ IsParseEntry
     /\ Len(LastFields) = 6
     /\ Str(LastFields[6]) \in DOMAIN TRUSTEE) =>
        LET type  == Str(LastFields[1])
            flags == re_const_findall(LastFields[2])
            perms == re_const_findall(LastFields[3])
        IN  /\ last.raised = None
            /\ type \notin DOMAIN ACCESS => last.ace.ace_type = type
            /\ \A i \in 1..Len(flags) :
                  flags[i] \notin DOMAIN ACCESS => last.ace.flags[i] = flags[i]
            /\ \A i \in 1..Len(perms) :
                  perms[i] \notin DOMAIN ACCESS =>
                      \E j \in 1..Len(last.ace.perms) :
                          last.ace.perms[j] = perms[i]

\* C3: an entry string that splits on ';' into a number of fields other
\* than six makes ParseEntry fail with InvalidAceStringError and build no
\* entry, and a Parse call whose ACL section holds such an entry is aborted
\* with that error.
C3_FieldCountError ==
    /\ (IsParseEntry /\ Len(LastFields) # 6) =>
          last.raised = "InvalidAceStringError" /\ last.ace = NoAce
    /\ (/\ IsParse
        /\ \E i \in 1..Len(EntriesOf(last.input)) :
              Len(split(EntriesOf(last.input)[i], ";")) # 6) =>
          last.raised = "InvalidAceStringError" /\ last.sddl = NoSddl

\* C4: trustee resolution never fails and yields a non-empty string, the
\* name of the chain (table, then service, then the fallback literal), for
\* the trustee of an entry as for the owner and the group.  Stated for an
\* environment whose WMI service does not fail (C8 is about its failures)
\* and for entries whose other codes the access table names (C2 is about
\* the others).
C4_TrusteeChain ==
    WmiNeverFails =>
        /\ (/\ IsParseEntry
            /\ Len(LastFields) = 6
            /\ Str(LastFields[1]) \in DOMAIN ACCESS
            /\ \A i \in 1..Len(re_const_findall(LastFields[2])) :
                  re_const_findall(LastFields[2])[i] \in DOMAIN ACCESS
            /\ \A i \in 1..Len(re_const_findall(LastFields[3])) :
                  re_const_findall(LastFields[3])[i] \in DOMAIN ACCESS) =>
              /\ last.raised = None
              /\ last.ace.trustee # ""
              /\ last.ace.trustee =
                    ChainName(Str(LastFields[6]), "Unknown or invalid SID.")
        /\ (IsParse /\ last.raised = None /\ last.sddl.owner_sid # None) =>
              /\ last.sddl.owner_account # ""
              /\ last.sddl.owner_account =
                    ChainName(last.sddl.owner_sid, "Unknown")
        /\ (IsParse /\ last.raised = None /\ last.sddl.group_sid # None) =>
              /\ last.sddl.group_account # ""
              /\ last.sddl.group_account =
                    ChainName(last.sddl.group_sid, "Unknown")

\* C5: a Parse call on a string in which no owner, group or ACL segment is
\* found fails with InvalidSddlStringError (the descriptor-string error).
C5_NothingFoundIsError ==
    (/\ IsParse
     /\ ~re_owner_search(last.input).found
     /\ ~re_group_search(last.input).found
     /\ ~re_acl_search(last.input).found) =>
        last.raised = "InvalidSddlStringError"

\* C6: for every six-field entry string (with a trustee the table names)
\* ParseEntry builds an entry whose permissions hold one element for each
\* two-character code of field 2, in ascending order of the resolved names.
C6_PermissionsSorted ==
    (/\ IsParseEntry
     /\ Len(LastFields) = 6
     /\ Str(LastFields[6]) \in DOMAIN TRUSTEE) =>
        /\ last.raised = None
        /\ Len(last.ace.perms) = Len(re_const_findall(LastFields[3]))
        /\ Ascending(last.ace.perms)

\* C7: an owner section 'O:'code is found wherever it stands in the
\* string: a Parse call that returns a descriptor has set its owner_sid to
\* the code and owner_account to the chain's name ('Unknown' at the end of
\* the chain); likewise a group section.
C7_SectionsFoundAnywhere ==
    (IsParse /\ last.raised = None) =>
        /\ \A o \in OwnerSections :
              HasSection(last.input, o.text) =>
                  /\ last.sddl.owner_sid = o.code
                  /\ last.sddl.owner_account = ChainName(o.code, "Unknown")
        /\ \A g \in GroupSections :
              HasSection(last.input, g.text) =>
                  /\ last.sddl.group_sid = g.code
                  /\ last.sddl.group_account = ChainName(g.code, "Unknown")

\* C8: a failure of the WMI service is taken as 'no name': no call fails
\* with the service's exception, and an owner or group whose SID the
\* service could not name is 'Unknown'.
C8_CollaboratorFailureTolerated ==
    /\ last.raised # "x_wmi"
    /\ (/\ IsParse
        /\ last.raised = None
        /\ last.sddl.owner_sid # None
        /\ last.sddl.owner_sid \notin DOMAIN TRUSTEE
        /\ WmiGet(wmi, last.sddl.owner_sid).kind # "account") =>
          last.sddl.owner_account = "Unknown"
    /\ (/\ IsParse
        /\ last.raised = None
        /\ last.sddl.group_sid # None
        /\ last.sddl.group_sid \notin DOMAIN TRUSTEE
        /\ WmiGet(wmi, last.sddl.group_sid).kind # "account") =>
          last.sddl.group_account = "Unknown"

\* C9: idempotence.  A Parse call with the arguments of an earlier call has
\* the outcome of that call (the same descriptor or the same error), the
\* WMI service answering the same and whatever calls ran in between.
C9_Idempotent ==
    (/\ IsParse
     /\ first.made
     /\ tracked = [sddl_string |-> last.input, target |-> last.target]) =>
        LastOutcome = first

\* C10: resolution chain determinism.  Over a whole call, TranslateSid is
\* called only for codes that are no key of the trustee table: a code the
\* table names is never handed to the WMI service.
C10_TableBeforeCollaborator ==
    \A i \in 1..Len(last.calls) : last.calls[i] \notin DOMAIN TRUSTEE

\* A Parse call returned a descriptor whose owner the table names and whose
\* group it does not: the service was asked for the group alone.
C10_Witness ==
    /\ IsParse
    /\ last.raised = None
    /\ last.sddl.owner_sid \in DOMAIN TRUSTEE
    /\ last.sddl.group_sid # None
    /\ last.sddl.group_sid \notin DOMAIN TRUSTEE
    /\ last.calls = <<last.sddl.group_sid>>

====
